---- MODULE Spec2Model ----
(***************************************************************************)
(* Model of draft/cones.ipynb: the Cone dataclass (validation and          *)
(* normalisation in __post_init__), the derived properties points_polar,   *)
(* points_cartesian, indices and faces, the static helper _shift, and      *)
(* create_obj.                                                             *)
(*                                                                         *)
(* Python values are modelled as follows.                                  *)
(*   - An argument whose type the code tests with isinstance is a record   *)
(*     [type, val]; type is the Python type name.                          *)
(*   - Lists and tuples are sequences; Python position k (from 0) is       *)
(*     position k+1 here.                                                  *)
(*   - Floating point coordinates are kept symbolic: a polar point is      *)
(*     <<ring, r, a, h>> where the radius is r * length*cos(dip)/rings,    *)
(*     the angle is a * 2*pi/sides and h is 0 for the literal height 0 and *)
(*     i - rings - 1 (negative, increasing with i) for the height          *)
(*     -sqrt(length^2 - radius(i)^2) of ring i.                            *)
(***************************************************************************)
EXTENDS Integers, Sequences, FiniteSets

\* ---------------------------------------------------------------- bounds
MaxSides == 4
MaxRings == 3
MaxShiftLen == 3
MaxOut == 3

\* ------------------------------------------------------ class constants
SIDES_MIN == 3
RINGS_MIN == 1
DIP_MIN == 0
DIP_MAX == 90

VARIABLES
    status,           \* "new" | "constructed" | "failed"
    args,             \* the arguments Cone(...) was called with
    cone,             \* the fields of the constructed object, or NoCone
    out,              \* lines printed so far
    err,              \* message of the last ValueError raised, or ""
    pointsPolar,      \* last value read from cone.points_polar
    pointsCartesian,  \* last value read from cone.points_cartesian
    pointIndices,     \* last value read from cone.indices
    faceList,         \* last value read from cone.faces
    file,             \* lines of the .obj file written by create_obj
    shiftCall         \* arguments and result of the last Cone._shift call

vars == <<status, args, cone, out, err, pointsPolar, pointsCartesian,
          pointIndices, faceList, file, shiftCall>>

NoCone == [none |-> TRUE]
NoArgs == [none |-> TRUE]
NoCall == [none |-> TRUE]

Min(a, b) == IF a <= b THEN a ELSE b

\* ------------------------------------------------------------- inputs
PointInputs == {"Point", "tuple"}
LengthInputs == {-1, 0, 100}
SidesInputs == [type : {"int"}, val : 0..MaxSides] \cup {[type |-> "float", val |-> 4]}
RingsInputs == [type : {"int"}, val : 0..MaxRings] \cup {[type |-> "float", val |-> 2]}
DipInputs == {-1, 0, 1, 45, 89, 90, 91}
DirectoryInputs == {"", "present", "absent"}

ArgsInputs ==
    [point : PointInputs, length : LengthInputs, sides : SidesInputs,
     rings : RingsInputs, dip : DipInputs]

\* ------------------------------------------------- Cone.__post_init__
\* math.radians, in units of 1e-4 rad
radians(deg) == (deg * 31416) \div 1800

\* variant: the range test with the bounds themselves accepted
DipOutOfRange_Inclusive(dip) == dip < DIP_MIN \/ dip > DIP_MAX

DipOutOfRange(dip) == dip <= DIP_MIN \/ dip >= DIP_MAX

\* variant: sides stored as given
ClampSides_None(s) == s

ClampSides(s) == IF s < SIDES_MIN THEN SIDES_MIN ELSE s

ClampRings(r) == IF r < RINGS_MIN THEN RINGS_MIN ELSE r

SidesNotice(s) == IF s < SIDES_MIN THEN <<"Number of sides set to 3">> ELSE <<>>

RingsNotice(r) == IF r < RINGS_MIN THEN <<"Number of rings set to 1">> ELSE <<>>

\* The outcome of __post_init__ on arguments a: whether it raised, the
\* message, what it printed before returning or raising, and the fields.
post_init(a) ==
    IF a.point # "Point" THEN
        [raised |-> TRUE, msg |-> "point must be an instance of Point",
         printed |-> <<>>, fields |-> NoCone]
    ELSE IF ~(a.length > 0) THEN
        [raised |-> TRUE, msg |-> "length must be a positive float",
         printed |-> <<>>, fields |-> NoCone]
    ELSE IF a.sides.type # "int" \/ a.rings.type # "int" THEN
        [raised |-> TRUE, msg |-> "sides and rings must be an integers",
         printed |-> <<>>, fields |-> NoCone]
    ELSE LET printed == SidesNotice(a.sides.val) \o RingsNotice(a.rings.val)
         IN  IF DipOutOfRange(a.dip) THEN
                 [raised |-> TRUE, msg |-> "dip must be larger than (0 and smaller than 90]",
                  printed |-> printed, fields |-> NoCone]
             ELSE
                 [raised |-> FALSE, msg |-> "", printed |-> printed,
                  fields |-> [point |-> a.point, length |-> a.length,
                              sides |-> ClampSides(a.sides.val),
                              rings |-> ClampRings(a.rings.val),
                              dip |-> radians(a.dip)]]

\* ---------------------------------------------------- Cone.points_polar
\* variant: ring 0 gets one point per side like every other ring
RingPoints_NoSkip(c, i) ==
    [k \in 1..c.sides |-> <<i, i, k - 1, i - c.rings - 1>>]

\* the points appended by the inner loop "for j in range(self.sides)" of ring i
RingPoints(c, i) ==
    LET js == IF i = 0 THEN 1 ELSE c.sides
    IN  [k \in 1..js |-> <<i, i, k - 1, i - c.rings - 1>>]

RECURSIVE RingsUpTo(_, _)
\* pts after the outer loop has run for i = 0 .. n
RingsUpTo(c, n) ==
    IF n < 0 THEN <<>> ELSE RingsUpTo(c, n - 1) \o RingPoints(c, n)

\* variant: the surface point is put in front of the rings
points_polar_ApexFirst(c) == <<<<-1, 0, 0, 0>>>> \o RingsUpTo(c, c.rings)

points_polar(c) == Append(RingsUpTo(c, c.rings), <<-1, 0, 0, 0>>)

\* ------------------------------------------------ Cone.points_cartesian
ToCartesian(p) == <<p[1], <<"x+r*cos", p[2], p[3]>>, <<"y+r*sin", p[2], p[3]>>, <<"z+", p[4]>>>>

points_cartesian(c) ==
    LET pp == points_polar(c)
    IN  [k \in 1..Len(pp) |-> ToCartesian(pp[k])]

\* ---------------------------------------------------------- Cone._shift
\* variant: rotation to the right, seq[-n:] + seq[:-n]
shift_Right(seq, n) ==
    LET m == n % Len(seq)
    IN  SubSeq(seq, Len(seq) - m + 1, Len(seq)) \o SubSeq(seq, 1, Len(seq) - m)

_shift(seq, n) ==
    LET m == n % Len(seq)
    IN  SubSeq(seq, m + 1, Len(seq)) \o SubSeq(seq, 1, m)

\* --------------------------------------------------------- Cone.indices
\* variant: enumeration started one too high
indices_OffByOne(c) ==
    LET pc == points_cartesian(c)
    IN  [k \in 1..Len(pc) |-> [ring |-> pc[k][1], idx |-> (k - 1) + 2]]

indices(c) ==
    LET pc == points_cartesian(c)
    IN  [k \in 1..Len(pc) |-> [ring |-> pc[k][1], idx |-> (k - 1) + 1]]

\* ----------------------------------------------------------- Cone.faces
\* Python's zip: stops at the shortest argument
Zip2(s, t) == [k \in 1..Min(Len(s), Len(t)) |-> <<s[k], t[k]>>]

Zip3(s, t, u) == [k \in 1..Min(Len(s), Min(Len(t), Len(u))) |-> <<s[k], t[k], u[k]>>]

\* [pt for pt in pts_idx if pt['ring'] == i]
RingOf(pts_idx, i) == SelectSeq(pts_idx, LAMBDA pt : pt.ring = i)

\* [pt['idx'] for pt in ring]
IdxOf(ring) == [k \in 1..Len(ring) |-> ring[k].idx]

\* the faces appended by the branch "if i == 0"
TipFaces(pts_idx) ==
    LET ring_current == RingOf(pts_idx, 0)
        ring_next == RingOf(pts_idx, 1)
        idx1 == ring_current[1].idx
        idx2 == IdxOf(ring_next)
        idx3 == _shift(idx2, 1)
        z == Zip2(idx2, idx3)
    IN  [k \in 1..Len(z) |-> <<idx1, z[k][1], z[k][2]>>]

\* the faces appended by the branch "elif i > 0"
BodyFaces(c, pts_idx, i) ==
    LET ring_current == RingOf(pts_idx, i)
        ring_next == RingOf(pts_idx, i + 1)
        idx1 == IdxOf(ring_current)
        idx2 == _shift(idx1, 1)
        idx3 == IdxOf(ring_next)
        idx4 == _shift(idx3, 1)
        z34 == Zip2(idx3, idx4)
        surface == pts_idx[Len(pts_idx)].idx
    IN  Zip3(idx1, idx2, idx3) \o Zip3(idx2, idx3, idx4)
        \o (IF i = c.rings - 1
            THEN [k \in 1..Len(z34) |-> <<surface, z34[k][1], z34[k][2]>>]
            ELSE <<>>)

\* the faces appended by iteration i of "for i in range(self.rings)"
TransitionFaces(c, pts_idx, i) ==
    IF i = 0 THEN TipFaces(pts_idx)
    ELSE IF i > 0 THEN BodyFaces(c, pts_idx, i)
    ELSE <<>>

RECURSIVE FacesUpTo(_, _, _)
\* faces after the loop has run for i = 0 .. n
FacesUpTo(c, pts_idx, n) ==
    IF n < 0 THEN <<>>
    ELSE FacesUpTo(c, pts_idx, n - 1) \o TransitionFaces(c, pts_idx, n)

faces(c) == FacesUpTo(c, indices(c), c.rings - 1)

\* ------------------------------------------------------ Cone.create_obj
Round3(coord) == <<"round3", coord>>

\* the lines written to the file
ObjLines(c) ==
    LET pc == points_cartesian(c)
        points == [k \in 1..Len(pc) |-> <<Round3(pc[k][2]), Round3(pc[k][3]), Round3(pc[k][4])>>]
        fs == faces(c)
    IN  [k \in 1..Len(points) |-> [kind |-> "v", data |-> points[k]]]
        \o [k \in 1..Len(fs) |-> [kind |-> "f", data |-> fs[k]]]

\* ================================================================ state
Init ==
    /\ status = "new"
    /\ args = NoArgs
    /\ cone = NoCone
    /\ out = <<>>
    /\ err = ""
    /\ pointsPolar = <<>>
    /\ pointsCartesian = <<>>
    /\ pointIndices = <<>>
    /\ faceList = <<>>
    /\ file = <<>>
    /\ shiftCall = NoCall

\* Cone(point, length, sides, rings, dip)
Construct ==
    /\ status = "new"
    /\ \E a \in ArgsInputs :
         LET r == post_init(a)
         IN  /\ args' = a
             /\ status' = IF r.raised THEN "failed" ELSE "constructed"
             /\ cone' = r.fields
             /\ err' = r.msg
             /\ out' = out \o r.printed
    /\ UNCHANGED <<pointsPolar, pointsCartesian, pointIndices, faceList, file, shiftCall>>

\* cone.points_polar
GetPointsPolar ==
    /\ status = "constructed"
    /\ pointsPolar' = points_polar(cone)
    /\ UNCHANGED <<status, args, cone, out, err, pointsCartesian, pointIndices,
                   faceList, file, shiftCall>>

\* cone.points_cartesian
GetPointsCartesian ==
    /\ status = "constructed"
    /\ pointsCartesian' = points_cartesian(cone)
    /\ UNCHANGED <<status, args, cone, out, err, pointsPolar, pointIndices,
                   faceList, file, shiftCall>>

\* cone.indices
GetIndices ==
    /\ status = "constructed"
    /\ pointIndices' = indices(cone)
    /\ UNCHANGED <<status, args, cone, out, err, pointsPolar, pointsCartesian,
                   faceList, file, shiftCall>>

\* cone.faces
GetFaces ==
    /\ status = "constructed"
    /\ faceList' = faces(cone)
    /\ UNCHANGED <<status, args, cone, out, err, pointsPolar, pointsCartesian,
                   pointIndices, file, shiftCall>>

\* cone.create_obj(name, directory)
CreateObj ==
    /\ status = "constructed"
    /\ Len(out) < MaxOut
    /\ \E directory \in DirectoryInputs :
         IF directory # "" /\ directory # "present"
         THEN /\ err' = "directory does not exist"
              /\ UNCHANGED <<file, out>>
         ELSE /\ file' = ObjLines(cone)
              /\ out' = Append(out, "obj file created")
              /\ err' = err
    /\ UNCHANGED <<status, args, cone, pointsPolar, pointsCartesian, pointIndices,
                   faceList, shiftCall>>

\* Cone._shift(seq, n), a static method: callable without an instance
ShiftInputs == {[k \in 1..m |-> 10 * k] : m \in 1..MaxShiftLen}

ShiftCall ==
    /\ \E seq \in ShiftInputs, n \in -(MaxShiftLen + 1)..(MaxShiftLen + 1) :
         shiftCall' = [seq |-> seq, n |-> n, result |-> _shift(seq, n)]
    /\ UNCHANGED <<status, args, cone, out, err, pointsPolar, pointsCartesian,
                   pointIndices, faceList, file>>

\* the life of one Cone object
Next ==
    \/ Construct
    \/ GetPointsPolar
    \/ GetPointsCartesian
    \/ GetIndices
    \/ GetFaces
    \/ CreateObj

Spec == Init /\ [][Next]_vars

\* direct calls of the static _shift next to its use by faces
NextShift ==
    \/ Construct
    \/ GetIndices
    \/ GetFaces
    \/ ShiftCall

SpecShift == Init /\ [][NextShift]_vars

\* ============================================================ properties
PrintedNotices == SelectSeq(out, LAMBDA line : line # "obj file created")

NoPointGenerated ==
    /\ pointsPolar = <<>>
    /\ pointsCartesian = <<>>
    /\ pointIndices = <<>>
    /\ faceList = <<>>
    /\ file = <<>>

\* number of positions of seq whose ring tag, read by Tag, is r
CountRing(seq, Tag(_), r) == Cardinality({k \in 1..Len(seq) : Tag(seq[k]) = r})

RingCountsOk(seq, Tag(_)) ==
    /\ Len(seq) = cone.rings * cone.sides + 2
    /\ CountRing(seq, Tag, 0) = 1
    /\ \A r \in 1..cone.rings : CountRing(seq, Tag, r) = cone.sides
    /\ CountRing(seq, Tag, -1) = 1

TupleTag(p) == p[1]

RecordTag(p) == p.ring

DirectedEdges(f) == {<<f[1], f[2]>>, <<f[2], f[3]>>, <<f[3], f[1]>>}

UndirectedEdges(f) == {{f[1], f[2]}, {f[2], f[3]}, {f[3], f[1]}}

FaceLines == SelectSeq(file, LAMBDA line : line.kind = "f")

VertexLines == SelectSeq(file, LAMBDA line : line.kind = "v")

\* C1: the list returned by faces has sides + 2*sides*(rings-1) + sides
\* = 2*sides*rings triangles, for every constructed cone, rings = 1 included.
C1_FaceCount ==
    faceList # <<>> =>
        /\ Len(faceList) = cone.sides + 2 * cone.sides * (cone.rings - 1) + cone.sides
        /\ Len(faceList) = 2 * cone.sides * cone.rings

\* C2: points_polar, points_cartesian and indices each have rings*sides + 2
\* entries: one tagged ring 0, sides tagged with each ring 1..rings, one tagged -1.
C2_PointCount ==
    /\ pointsPolar # <<>> => RingCountsOk(pointsPolar, TupleTag)
    /\ pointsCartesian # <<>> => RingCountsOk(pointsCartesian, TupleTag)
    /\ pointIndices # <<>> => RingCountsOk(pointIndices, RecordTag)

C2_Witness ==
    /\ pointsPolar # <<>>
    /\ pointsCartesian # <<>>
    /\ pointIndices # <<>>
    /\ cone.rings >= 2
    /\ cone.sides > SIDES_MIN

\* C3: every component of every face is an index i with
\* 1 <= i <= len(points_cartesian), and every f line of the written file refers
\* to one of the v lines written before it.
C3_FaceIndexRange ==
    /\ (faceList # <<>> /\ pointsCartesian # <<>>) =>
           \A k \in 1..Len(faceList) : \A j \in 1..3 :
               faceList[k][j] \in 1..Len(pointsCartesian)
    /\ file # <<>> =>
           /\ \A k \in 1..Len(FaceLines) : \A j \in 1..3 :
                  FaceLines[k].data[j] \in 1..Len(VertexLines)
           /\ \A k \in 1..Len(file) :
                  file[k].kind = "f" => \A m \in 1..Len(VertexLines) : m < k /\ file[m].kind = "v"

C3_Witness ==
    /\ faceList # <<>>
    /\ pointsCartesian # <<>>
    /\ Len(FaceLines) > 0
    /\ cone.rings >= 2

\* C4: indices gives the k-th entry of points_cartesian (k from 0) the index
\* k+1; ring tags appear in the order 0, 1, ..., rings, and the single ring -1
\* entry is last and carries the highest index rings*sides + 2.
C4_IndexOrder ==
    (pointIndices # <<>> /\ pointsCartesian # <<>>) =>
        LET n == Len(pointIndices)
        IN  /\ n = Len(pointsCartesian)
            /\ \A k \in 1..n :
                   /\ pointIndices[k].idx = k
                   /\ pointIndices[k].ring = pointsCartesian[k][1]
            /\ {pointIndices[k].idx : k \in 1..n} = 1..(cone.rings * cone.sides + 2)
            /\ pointIndices[1].ring = 0
            /\ pointIndices[n - 1].ring = cone.rings
            /\ \A k \in 1..(n - 2) :
                   pointIndices[k + 1].ring \in {pointIndices[k].ring, pointIndices[k].ring + 1}
            /\ pointIndices[n].ring = -1
            /\ pointIndices[n].idx = cone.rings * cone.sides + 2
            /\ \A k \in 1..(n - 1) :
                   pointIndices[k].ring # -1 /\ pointIndices[k].idx < pointIndices[n].idx

C4_Witness ==
    /\ pointIndices # <<>>
    /\ pointsCartesian # <<>>
    /\ cone.rings >= 2

\* the arguments the claim C5 calls invalid
C5_Rejected(a) ==
    \/ a.point # "Point"
    \/ a.length <= 0
    \/ a.sides.type # "int"
    \/ a.rings.type # "int"
    \/ a.dip <= 0
    \/ a.dip >= 90

\* C5: construction fails, yields no object and generates no point when point
\* is not a Point, length <= 0, sides or rings is not an integer, or dip <= 0 or
\* dip >= 90; with a Point, length > 0, integer sides and rings and 0 < dip < 90
\* it succeeds.
C5_Validation ==
    status # "new" =>
        /\ C5_Rejected(args) =>
               /\ status = "failed"
               /\ err # ""
               /\ cone = NoCone
               /\ NoPointGenerated
        /\ ~C5_Rejected(args) =>
               /\ status = "constructed"
               /\ cone # NoCone

C5_Witness ==
    /\ status = "failed"
    /\ args.point = "Point"
    /\ args.length > 0
    /\ args.sides.type = "int"
    /\ args.rings.type = "int"
    /\ args.dip = 90

\* C6: with the other fields valid, integer sides < 3 is stored as 3 with a
\* notice and integer rings < 1 as 1 with a notice, without failing; larger
\* values are stored unchanged with no notice; every constructed cone has
\* sides >= 3 and rings >= 1; the notices are printed before any point exists.
C6_Clamping ==
    /\ (status # "new" /\ ~C5_Rejected(args)) =>
           /\ status = "constructed"
           /\ cone.sides = (IF args.sides.val < 3 THEN 3 ELSE args.sides.val)
           /\ cone.rings = (IF args.rings.val < 1 THEN 1 ELSE args.rings.val)
           /\ PrintedNotices =
                  (IF args.sides.val < 3 THEN <<"Number of sides set to 3">> ELSE <<>>)
                  \o (IF args.rings.val < 1 THEN <<"Number of rings set to 1">> ELSE <<>>)
    /\ status = "constructed" => (cone.sides >= 3 /\ cone.rings >= 1)
    /\ ~NoPointGenerated =>
           /\ args.sides.val < 3 =>
                  \E k \in 1..Len(out) : out[k] = "Number of sides set to 3"
           /\ args.rings.val < 1 =>
                  \E k \in 1..Len(out) : out[k] = "Number of rings set to 1"

C6_Witness ==
    /\ status = "constructed"
    /\ args.sides.val = 2
    /\ args.rings.val = 0
    /\ file # <<>>

\* C7: no directed edge (u, v) occurs in the cyclic vertex order of two
\* different faces.
C7_ConsistentWinding ==
    faceList # <<>> =>
        \A a, b \in 1..Len(faceList) :
            a # b => DirectedEdges(faceList[a]) \cap DirectedEdges(faceList[b]) = {}

\* C8: every undirected edge of a face occurs in exactly two faces, and every
\* vertex index 1..rings*sides+2 is used by at least one face.
C8_ClosedSurface ==
    faceList # <<>> =>
        /\ \A a \in 1..Len(faceList) : \A e \in UndirectedEdges(faceList[a]) :
               Cardinality({b \in 1..Len(faceList) : e \in UndirectedEdges(faceList[b])}) = 2
        /\ \A v \in 1..(cone.rings * cone.sides + 2) :
               \E a \in 1..Len(faceList) : \E j \in 1..3 : faceList[a][j] = v

\* C9: for rings >= 1 the last transition i = rings-1 (0 -> 1 when rings = 1)
\* emits the apex fan: (apex, B[k], B[(k+1) mod sides]) is a face for each
\* k in 0..sides-1, apex being the last index and B the indices of ring rings.
C9_ApexFan ==
    (faceList # <<>> /\ pointIndices # <<>>) =>
        LET B == IdxOf(RingOf(pointIndices, cone.rings))
            apex == cone.rings * cone.sides + 2
        IN  \A k \in 0..(cone.sides - 1) :
                \E a \in 1..Len(faceList) :
                    faceList[a] = <<apex, B[k + 1], B[((k + 1) % cone.sides) + 1]>>

\* the triangles C10 expects of transition i -> i+1, by modular indexing
C10_Expected(i) ==
    LET s == cone.sides
        A == IdxOf(RingOf(pointIndices, i))
        B == IdxOf(RingOf(pointIndices, i + 1))
    IN  IF i = 0
        THEN {<<A[1], B[k + 1], B[((k + 1) % s) + 1]>> : k \in 0..(s - 1)}
        ELSE {<<A[k + 1], A[((k + 1) % s) + 1], B[k + 1]>> : k \in 0..(s - 1)}
             \cup {<<A[((k + 1) % s) + 1], B[k + 1], B[((k + 1) % s) + 1]>> : k \in 0..(s - 1)}

\* the faces that are not of the apex fan
C10_NonApex ==
    SelectSeq(faceList, LAMBDA f : f[1] # pointIndices[Len(pointIndices)].idx)

\* C10: _shift(seq, n)[k] = seq[(k+n) mod len(seq)] for non-empty seq; so
\* transition 0 -> 1 emits exactly the sides triangles (t, N1[k], N1[(k+1) mod
\* sides]) and each transition i -> i+1, 1 <= i <= rings-1, exactly the
\* triangles (A[k], A[k+1 mod sides], B[k]) and (A[k+1 mod sides], B[k],
\* B[k+1 mod sides]).
C10_ShiftIsModular ==
    /\ shiftCall # NoCall =>
           /\ Len(shiftCall.result) = Len(shiftCall.seq)
           /\ \A k \in 0..(Len(shiftCall.seq) - 1) :
                  shiftCall.result[k + 1]
                      = shiftCall.seq[((k + shiftCall.n) % Len(shiftCall.seq)) + 1]
    /\ (faceList # <<>> /\ pointIndices # <<>>) =>
           /\ {C10_NonApex[k] : k \in 1..Len(C10_NonApex)}
                  = UNION {C10_Expected(i) : i \in 0..(cone.rings - 1)}
           /\ Len(C10_NonApex) = cone.sides + 2 * cone.sides * (cone.rings - 1)
           /\ \A k \in 1..cone.sides : faceList[k] \in C10_Expected(0)

C10_Witness ==
    /\ shiftCall # NoCall
    /\ Len(shiftCall.seq) >= 3
    /\ shiftCall.n < 0
    /\ faceList # <<>>
    /\ pointIndices # <<>>
    /\ cone.rings >= 3

====
